---- MODULE Spec2Model ----
(***************************************************************************)
(* A model of the note scanner, the identifier rewriter, the heading       *)
(* context and the cloze numbering of obsidian-to-anki (src/src/file.ts,   *)
(* src/src/note.ts).                                                       *)
(*                                                                         *)
(* The document is a sequence of tokens.  The regular expressions that     *)
(* find the notes (data.NOTE_REGEXP, data.INLINE_REGEXP,                   *)
(* data.CALLOUT_REGEXP, the custom regexps) are supplied by the settings   *)
(* and are not part of the modelled source, so the result of matching them *)
(* is an input: a set of candidates, each with the span it was matched at  *)
(* and the properties of its text that the extractors branch on.           *)
(***************************************************************************)
EXTENDS Integers, Sequences, FiniteSets, TLC

VARIABLES
  doc,                  \* the candidates the regexps match in this.file
  EXISTING_IDS,         \* data.EXISTING_IDS, the known-identifiers snapshot
  comment,              \* data.comment
  file,                 \* this.file, a sequence of tokens
  original_file,        \* this.original_file
  pc,                   \* where the plugin is in scanFile / writeIDs
  todo,                 \* the matches the scanners have yet to reach
  ignore_spans,
  notes_to_add, id_indexes,
  inline_notes_to_add, inline_id_indexes,
  regex_notes_to_add, regex_id_indexes,
  callout_notes_to_add, callout_id_indexes,
  notes_to_edit,
  all_notes_to_add,
  note_ids,             \* the identifiers the store returned for the creations
  inserts,              \* the position_inserts writeIDs handed to string_insert
  warnings,             \* what console.warn / console.error reported
  clozeUnsetNum,        \* the module-level cloze counter of the formatter
  noteText,             \* the raw text of the field being extracted
  fmt,                  \* the FormatConverter.format call made on it, if any
  file_cache,           \* this.file_cache, the metadata of the document
  contextPosition,      \* the position getContextAtIndex is called with
  context               \* what getContextAtIndex returned, before the join

scanVars == <<doc, EXISTING_IDS, comment, file, original_file, pc, todo, ignore_spans,
              notes_to_add, id_indexes, inline_notes_to_add, inline_id_indexes,
              regex_notes_to_add, regex_id_indexes, callout_notes_to_add,
              callout_id_indexes, notes_to_edit, all_notes_to_add, note_ids,
              inserts, warnings>>
fmtVars == <<clozeUnsetNum, noteText, fmt>>
ctxVars == <<file_cache, contextPosition, context>>
vars == <<scanVars, fmtVars, ctxVars>>

----------------------------------------------------------------------------
(* Bounds of the model. *)
MaxPos == 4          \* candidates are matched within positions 0..MaxPos
MaxCands == 2        \* candidates in one document
MaxLen == 4          \* tokens of a document whose text is varied
MaxText == 6         \* characters of a field text
MaxCalls == 2        \* format calls in one run
MaxInserts == 2      \* insertions handed to one call of string_insert
MaxHeadings == 3     \* headings of a document
MaxLevel == 3        \* heading levels are 1..MaxLevel

(* Program constants. *)
NULL == -1                   \* identifier: number | null
CLOZE_ERROR == 42
NOTE_TYPE_ERROR == 69

(* data.fields_dict: note type -> field names. *)
fields_dict == [Basic |-> <<"Front", "Back">>, Cloze |-> <<"Text", "Extra">>]

(* The keys of this.custom_regexps, in iteration order.  "Nope" is a type  *)
(* for which a regexp is configured but which the schema does not have.    *)
custom_regexps == <<"Basic", "Cloze", "Nope">>

(* note_type.toLowerCase().includes('cloze') *)
IsClozeType(t) == t \in {"Cloze"}

Range(s) == {s[i] : i \in DOMAIN s}

----------------------------------------------------------------------------
(* Candidates. *)

Pos == 0..MaxPos
(* Spans of two tokens, and the span of the whole range. *)
SpanSet == {sp \in Pos \X Pos : sp[2] - sp[1] = 2 \/ sp = <<0, MaxPos>>}

(* The identifiers written in documents: none, an ordinary one, and the    *)
(* two values the extractors use as error codes.                           *)
DocIds == {NULL, 7, CLOZE_ERROR, NOTE_TYPE_ERROR}
IdPool == DocIds \ {NULL}

(* CalloutNote.TYPE_REGEXP on a marker without subtype: the optional group *)
(* that captures the subtype takes no part in the match, and result[1] is  *)
(* undefined.                                                              *)
NoSubtype == "undefined"

Cand(k, sp, i, t, sh, tg, cz) ==
  [kind |-> k, span |-> sp, id |-> i, type |-> t, shape |-> sh, tags |-> tg, cloze |-> cz]

(* START ... END blocks: the first line is the note type. *)
BlockCands == {Cand("block", sp, i, "Basic", "ok", FALSE, FALSE) : sp \in SpanSet, i \in DocIds}
              \cup {Cand("block", sp, NULL, "Nope", "ok", FALSE, FALSE) : sp \in SpanSet}
(* STARTI ... ENDI: shape "notype" is a text without a bracketed type. *)
InlineCands == {Cand("inline", sp, i, "Basic", "ok", FALSE, FALSE) : sp \in SpanSet, i \in DocIds}
               \cup {Cand("inline", sp, NULL, "Nope", "ok", FALSE, FALSE) : sp \in SpanSet}
               \cup {Cand("inline", sp, NULL, "", "notype", FALSE, FALSE) : sp \in SpanSet}
(* Callout blocks: shape "empty" has an empty Front or Back after          *)
(* stripping, shape "nobody" has no line after the marker line.  The type  *)
(* is the subtype of the marker [!anki:subtype]; NoSubtype is the marker   *)
(* [!anki].                                                                *)
CalloutCands == {Cand("callout", sp, i, "Basic", sh, FALSE, FALSE) :
                   sp \in SpanSet, i \in DocIds, sh \in {"ok", "empty"}}
                \cup {Cand("callout", sp, NULL, "Basic", "nobody", FALSE, FALSE) : sp \in SpanSet}
                \cup {Cand("callout", sp, NULL, t, "ok", FALSE, FALSE) :
                        sp \in SpanSet, t \in {"Nope", "Cloze", NoSubtype}}
(* Occurrences of a custom regexp: span is the span of the regexp proper,  *)
(* tags / id say whether a Tags: suffix and an ID: suffix follow it, cloze *)
(* whether the formatted fields hold a cloze marker.                       *)
RegexCands == {Cand("regex", sp, i, "Basic", "ok", tg, FALSE) :
                 sp \in SpanSet, i \in DocIds, tg \in BOOLEAN}
              \cup {Cand("regex", sp, i, "Cloze", "ok", FALSE, cz) :
                      sp \in SpanSet, i \in DocIds, cz \in BOOLEAN}
              \cup {Cand("regex", sp, NULL, "Nope", "ok", FALSE, FALSE) : sp \in SpanSet}
(* Inline code, seeded into ignore_spans like math and display code. *)
CodeCands == {Cand("code", sp, NULL, "", "ok", FALSE, FALSE) : sp \in SpanSet}

Candidates == BlockCands \cup InlineCands \cup CalloutCands \cup RegexCands \cup CodeCands

(* The text a candidate occupies, suffixes included (one token each). *)
Extent(c) == <<c.span[1],
               c.span[2] + (IF c.tags THEN 1 ELSE 0)
                         + (IF c.kind = "regex" /\ c.id # NULL THEN 1 ELSE 0)>>

Overlap(a, b) == a[1] < b[2] /\ b[1] < a[2]

SameRegexp(c, d) == c.kind = d.kind /\ (c.kind = "regex" => c.type = d.type)

(* matchAll yields the non-overlapping matches of one regexp; the built-in  *)
(* regexps start with different delimiters, so that matches of two of them *)
(* are not the same span.                                                  *)
WellFormed(d) ==
  \A c \in d : \A e \in d :
    c # e =>
      /\ SameRegexp(c, e) => ~Overlap(Extent(c), Extent(e))
      /\ (c.kind # "regex" /\ e.kind # "regex") => c.span # e.span

RECURSIVE UpTo(_)
UpTo(n) ==
  IF n = 0 THEN {{}}
  ELSE LET smaller == UpTo(n - 1)
       IN smaller \cup {d \cup {c} : d \in smaller, c \in Candidates}

Docs == {d \in UpTo(MaxCands) : WellFormed(d)}

(* The candidates of a set in the order of their start offsets. *)
RECURSIVE InOrder(_)
InOrder(S) ==
  IF S = {} THEN <<>>
  ELSE LET first == CHOOSE c \in S : \A e \in S : c.span[1] <= e.span[1]
       IN <<first>> \o InOrder(S \ {first})

OfKind(k) == InOrder({c \in doc : c.kind = k})

----------------------------------------------------------------------------
(* The four passes of search, and what each pass matches. *)

(* for searchId of [true, false], for searchTags of [true, false] *)
Passes == << [searchId |-> TRUE,  searchTags |-> TRUE],
             [searchId |-> TRUE,  searchTags |-> FALSE],
             [searchId |-> FALSE, searchTags |-> TRUE],
             [searchId |-> FALSE, searchTags |-> FALSE] >>

(* new RegExp(regexpStr + tagStr + idStr, 'gm'): the regexp proper, then   *)
(* the Tags: suffix if searched, then the ID: suffix if searched.          *)
PassMatches(noteType, p) ==
  LET hit(c) == /\ c.type = noteType
                /\ Passes[p].searchTags => c.tags
                /\ Passes[p].searchId => (c.id # NULL /\ (c.tags => Passes[p].searchTags))
  IN SelectSeq(OfKind("regex"), hit)

(* [match.index, match.index + match[0].length] *)
MatchSpan(c, p) ==
  <<c.span[1],
    c.span[2] + (IF Passes[p].searchTags THEN 1 ELSE 0)
              + (IF Passes[p].searchId THEN 1 ELSE 0)>>

(* Every match search() reaches, in the order it reaches them. *)
RECURSIVE Lex(_)
Lex(S) ==
  IF S = {} THEN <<>>
  ELSE LET m == CHOOSE a \in S : \A b \in S :
                  \/ a[1] < b[1]
                  \/ a[1] = b[1] /\ a[2] < b[2]
                  \/ a[1] = b[1] /\ a[2] = b[2] /\ a[3] <= b[3]
       IN <<m>> \o Lex(S \ {m})

Step(phase, c, p) == [phase |-> phase, c |-> c, p |-> p]

SearchSteps ==
  LET order == Lex({<<ti, p, mi>> \in (DOMAIN custom_regexps) \X (DOMAIN Passes) \X (1..MaxCands) :
                      mi <= Len(PassMatches(custom_regexps[ti], p))})
  IN [k \in DOMAIN order |->
        Step("search", PassMatches(custom_regexps[order[k][1]], order[k][2])[order[k][3]],
             order[k][2])]

Steps(phase, kind) ==
  LET cs == OfKind(kind) IN [k \in DOMAIN cs |-> Step(phase, cs[k], 0)]

(* scanFile: scanNotes, scanInlineNotes, scanCalloutNotes, then search for *)
(* every custom regexp: the matches the loops will reach, in order.        *)
ScanOrder ==
  Steps("scanNotes", "block") \o Steps("scanInlineNotes", "inline")
    \o Steps("scanCalloutNotes", "callout") \o SearchSteps

(* The loop that runs next: loops over no match are passed over. *)
PcOf(steps) == IF steps = <<>> THEN "scanFileEnd" ELSE Head(steps).phase

----------------------------------------------------------------------------
(* The extractors (note.ts). *)

(* An extracted note: the AnkiConnectNote, with the match it was built     *)
(* from.  fields is the set of keys of note.fields.                        *)
NoteOf(c, keys) == [modelName |-> c.type, fields |-> keys, kind |-> c.kind, src |-> c.span]

(* AbstractNote constructor: fields_dict.hasOwnProperty(this.note_type) *)
no_note_type(c) == c.type \notin DOMAIN fields_dict

(* What makes an extractor throw a TypeError:                              *)
(*  InlineNote.getNoteType reads result.index of a null match;             *)
(*  CalloutNote.getFields reads match[1] of a null match;                  *)
(*  RegexNote.getFields iterates this.field_names, which is undefined.     *)
Throws(c) ==
  \/ c.kind = "inline" /\ c.shape = "notype"
  \/ c.kind = "callout" /\ ~no_note_type(c) /\ c.shape = "nobody"
  \/ c.kind = "regex" /\ no_note_type(c)

(* Note / InlineNote / CalloutNote getFields, the keys of the result: a    *)
(* key per field name; the callout variant returns {} when Front or Back   *)
(* is empty, and otherwise assigns fields.Front and fields.Back.           *)
getFields(c) ==
  IF c.kind # "callout" THEN Range(fields_dict[c.type])
  ELSE IF c.shape = "empty" THEN {}
  ELSE Range(fields_dict[c.type]) \cup {"Front", "Back"}

(* AbstractNote.parse *)
parse(c) ==
  IF no_note_type(c)
  THEN [note |-> NoteOf(c, {}), identifier |-> NOTE_TYPE_ERROR]
  ELSE [note |-> NoteOf(c, getFields(c)), identifier |-> c.id]

(* RegexNote constructor and RegexNote.parse, for a match of pass p; the   *)
(* regexp has no more capture groups than the note type has fields.        *)
regexParse(c, p) ==
  LET identifier == IF Passes[p].searchId THEN c.id ELSE NULL
  IN [note |-> NoteOf(c, Range(fields_dict[c.type])),
      identifier |-> IF IsClozeType(c.type) /\ ~c.cloze THEN CLOZE_ERROR ELSE identifier]

(* The end of the whole match instead of the end of the capture group. *)
Position_of_match(c) == c.span[2]

(* noteMatch.index + noteMatch[0].indexOf(noteMatch[1]) + noteMatch[1].length: *)
(* the end of the first capture group, which the closing delimiter (one    *)
(* token) follows; a callout has no closing delimiter.                     *)
Position(c) == IF c.kind = "callout" THEN c.span[2] ELSE c.span[2] - 1

(* contained_in without the leeway of one position. *)
contained_in_exactly(span, spans) ==
  \E k \in DOMAIN spans : span[1] >= spans[k][1] /\ span[2] <= spans[k][2]

(* contained_in *)
contained_in(span, spans) ==
  \E k \in DOMAIN spans : span[1] >= spans[k][1] - 1 /\ span[2] <= spans[k][2] + 1

(* A report on the console, with the match it is about. *)
Warn(what, c) == [what |-> what, kind |-> c.kind, type |-> c.type, src |-> c.span]

----------------------------------------------------------------------------
(* The scan (file.ts, AllFile). *)

SeqOfSpans(cs) == [k \in DOMAIN cs |-> cs[k].span]

(* add_spans_to_ignore: the block notes, the inline notes, then code *)
add_spans_to_ignore ==
  SeqOfSpans(OfKind("block")) \o SeqOfSpans(OfKind("inline")) \o SeqOfSpans(OfKind("code"))

fmtIdle == UNCHANGED fmtVars
ctxIdle == UNCHANGED ctxVars
inputsSame == UNCHANGED <<doc, EXISTING_IDS, comment, original_file>>

setupScan ==
  /\ pc = "setupScan"
  /\ ignore_spans' = add_spans_to_ignore
  /\ notes_to_add' = <<>> /\ inline_notes_to_add' = <<>>
  /\ callout_notes_to_add' = <<>> /\ regex_notes_to_add' = <<>>
  /\ id_indexes' = <<>> /\ inline_id_indexes' = <<>>
  /\ regex_id_indexes' = <<>> /\ callout_id_indexes' = <<>>
  /\ notes_to_edit' = <<>>
  /\ todo' = ScanOrder
  /\ pc' = PcOf(todo')
  /\ UNCHANGED <<file, all_notes_to_add, note_ids, inserts, warnings>>
  /\ inputsSame /\ fmtIdle /\ ctxIdle

(* One iteration of the loop of scanNotes. *)
scanNotes ==
  /\ pc = "scanNotes"
  /\ LET c == Head(todo).c
         parsed == parse(c)
     IN /\ IF parsed.identifier = NULL
           THEN /\ notes_to_add' = Append(notes_to_add, parsed.note)
                /\ id_indexes' = Append(id_indexes, Position(c))
                /\ UNCHANGED <<notes_to_edit, warnings>>
           ELSE IF parsed.identifier \notin EXISTING_IDS
           THEN /\ warnings' =
                     IF parsed.identifier = CLOZE_ERROR THEN warnings
                     ELSE IF parsed.identifier = NOTE_TYPE_ERROR
                     THEN Append(warnings, Warn("unknown note type", c))
                     ELSE Append(warnings, Warn("does not exist", c))
                /\ UNCHANGED <<notes_to_add, id_indexes, notes_to_edit>>
           ELSE /\ notes_to_edit' = Append(notes_to_edit, parsed)
                /\ UNCHANGED <<notes_to_add, id_indexes, warnings>>
        /\ todo' = Tail(todo)
        /\ pc' = PcOf(todo')
  /\ UNCHANGED <<file, ignore_spans, inline_notes_to_add, inline_id_indexes,
                 regex_notes_to_add, regex_id_indexes, callout_notes_to_add,
                 callout_id_indexes, all_notes_to_add, note_ids, inserts>>
  /\ inputsSame /\ fmtIdle /\ ctxIdle

(* One iteration of the loop of scanInlineNotes. *)
scanInlineNotes ==
  /\ pc = "scanInlineNotes"
  /\ LET c == Head(todo).c
         parsed == parse(c)
     IN IF Throws(c)
        THEN /\ pc' = "TypeError"
             /\ UNCHANGED <<todo, inline_notes_to_add, inline_id_indexes,
                            notes_to_edit, warnings>>
        ELSE /\ IF parsed.identifier = NULL
                THEN /\ inline_notes_to_add' = Append(inline_notes_to_add, parsed.note)
                     /\ inline_id_indexes' = Append(inline_id_indexes, Position(c))
                     /\ UNCHANGED <<notes_to_edit, warnings>>
                ELSE IF parsed.identifier \notin EXISTING_IDS
                THEN /\ warnings' =
                          IF parsed.identifier = CLOZE_ERROR THEN warnings
                          ELSE Append(warnings, Warn("does not exist", c))
                     /\ UNCHANGED <<inline_notes_to_add, inline_id_indexes, notes_to_edit>>
                ELSE /\ notes_to_edit' = Append(notes_to_edit, parsed)
                     /\ UNCHANGED <<inline_notes_to_add, inline_id_indexes, warnings>>
             /\ todo' = Tail(todo)
             /\ pc' = PcOf(todo')
  /\ UNCHANGED <<file, ignore_spans, notes_to_add, id_indexes,
                 regex_notes_to_add, regex_id_indexes, callout_notes_to_add,
                 callout_id_indexes, all_notes_to_add, note_ids, inserts>>
  /\ inputsSame /\ fmtIdle /\ ctxIdle

(* One iteration of the loop of scanCalloutNotes. *)
scanCalloutNotes ==
  /\ pc = "scanCalloutNotes"
  /\ LET c == Head(todo).c
         parsed == parse(c)
     IN IF Throws(c)
        THEN /\ pc' = "TypeError"
             /\ UNCHANGED <<todo, callout_notes_to_add, callout_id_indexes,
                            notes_to_edit, warnings>>
        ELSE /\ IF parsed.identifier = NULL
                THEN /\ callout_notes_to_add' = Append(callout_notes_to_add, parsed.note)
                     /\ callout_id_indexes' = Append(callout_id_indexes, Position(c))
                     /\ notes_to_edit' = notes_to_edit
                ELSE IF parsed.identifier \notin EXISTING_IDS
                THEN UNCHANGED <<callout_notes_to_add, callout_id_indexes, notes_to_edit>>
                ELSE /\ notes_to_edit' = Append(notes_to_edit, parsed)
                     /\ UNCHANGED <<callout_notes_to_add, callout_id_indexes>>
             /\ warnings' =
                  LET said == IF c.shape = "empty" /\ ~no_note_type(c)
                              THEN Append(warnings, Warn("Front or Back field is empty", c))
                              ELSE warnings
                  IN IF parsed.identifier = NULL \/ parsed.identifier \in EXISTING_IDS
                        \/ parsed.identifier = CLOZE_ERROR
                     THEN said
                     ELSE IF parsed.identifier = NOTE_TYPE_ERROR
                     THEN Append(said, Warn("unknown note type", c))
                     ELSE Append(said, Warn("does not exist", c))
             /\ todo' = Tail(todo)
             /\ pc' = PcOf(todo')
  /\ UNCHANGED <<file, ignore_spans, notes_to_add, id_indexes,
                 inline_notes_to_add, inline_id_indexes,
                 regex_notes_to_add, regex_id_indexes,
                 all_notes_to_add, note_ids, inserts>>
  /\ inputsSame /\ fmtIdle /\ ctxIdle

(* The first span removed instead of the last. *)
pop_first(spans) == Tail(spans)

(* this.ignore_spans.pop() *)
pop(spans) == SubSeq(spans, 1, Len(spans) - 1)

(* One match of one pass of search: findignore passes over it when it is   *)
(* contained in ignore_spans, otherwise the loop body runs.                *)
search ==
  /\ pc = "search"
  /\ LET c == Head(todo).c
         p == Head(todo).p
         span == MatchSpan(c, p)
         pushed == Append(ignore_spans, span)
         parsed == regexParse(c, p)
         discard == parsed.identifier = CLOZE_ERROR
                    /\ (Passes[p].searchId => parsed.identifier \notin EXISTING_IDS)
     IN IF contained_in(span, ignore_spans)
        THEN /\ todo' = Tail(todo)
             /\ pc' = PcOf(todo')
             /\ UNCHANGED <<ignore_spans, regex_notes_to_add, regex_id_indexes,
                            notes_to_edit, warnings>>
        ELSE IF Throws(c)
        THEN /\ pc' = "TypeError"
             /\ ignore_spans' = pushed
             /\ UNCHANGED <<todo, regex_notes_to_add, regex_id_indexes,
                            notes_to_edit, warnings>>
        ELSE /\ ignore_spans' = IF discard THEN pop(pushed) ELSE pushed
             /\ IF Passes[p].searchId
                THEN IF parsed.identifier \notin EXISTING_IDS
                     THEN /\ warnings' = IF discard THEN warnings
                                         ELSE Append(warnings, Warn("does not exist", c))
                          /\ UNCHANGED <<regex_notes_to_add, regex_id_indexes, notes_to_edit>>
                     ELSE /\ notes_to_edit' = Append(notes_to_edit, parsed)
                          /\ UNCHANGED <<regex_notes_to_add, regex_id_indexes, warnings>>
                ELSE IF discard
                     THEN UNCHANGED <<regex_notes_to_add, regex_id_indexes,
                                      notes_to_edit, warnings>>
                     ELSE /\ regex_notes_to_add' = Append(regex_notes_to_add, parsed.note)
                          /\ regex_id_indexes' = Append(regex_id_indexes, span[2])
                          /\ UNCHANGED <<notes_to_edit, warnings>>
             /\ todo' = Tail(todo)
             /\ pc' = PcOf(todo')
  /\ UNCHANGED <<file, notes_to_add, id_indexes,
                 inline_notes_to_add, inline_id_indexes,
                 callout_notes_to_add, callout_id_indexes,
                 all_notes_to_add, note_ids, inserts>>
  /\ inputsSame /\ fmtIdle /\ ctxIdle

(* The end of scanFile: the creation batch, in the order it is sent. *)
scanFileEnd ==
  /\ pc = "scanFileEnd"
  /\ all_notes_to_add' = notes_to_add \o inline_notes_to_add
                           \o regex_notes_to_add \o callout_notes_to_add
  /\ pc' = "requests"
  /\ UNCHANGED <<file, todo, ignore_spans, notes_to_add, id_indexes,
                 inline_notes_to_add, inline_id_indexes,
                 regex_notes_to_add, regex_id_indexes,
                 callout_notes_to_add, callout_id_indexes,
                 notes_to_edit, note_ids, inserts, warnings>>
  /\ inputsSame /\ fmtIdle /\ ctxIdle

----------------------------------------------------------------------------
(* Writing the identifiers back (file.ts, writeIDs). *)

(* The identifier the store assigns to creation number k of the batch. *)
FreshId(k) == 100 + k

(* The answers the store can give to a batch of n creations: an identifier *)
(* or null (the creation failed) for each, correlated by position.         *)
Answers(n) == {a \in [1..n -> {NULL} \cup {FreshId(k) : k \in 1..n}] :
                 \A k \in 1..n : a[k] \in {NULL, FreshId(k)}}

(* The response to getAddNotes is stored in note_ids. *)
requests ==
  /\ pc = "requests"
  /\ note_ids' \in Answers(Len(all_notes_to_add))
  /\ pc' = "writeIDs"
  /\ UNCHANGED <<file, todo, ignore_spans, notes_to_add, id_indexes,
                 inline_notes_to_add, inline_id_indexes,
                 regex_notes_to_add, regex_id_indexes,
                 callout_notes_to_add, callout_id_indexes,
                 notes_to_edit, all_notes_to_add, inserts, warnings>>
  /\ inputsSame /\ fmtIdle /\ ctxIdle

(* id_to_str: 'ID: ' + identifier, comment-wrapped or not, then ' ' or '\n' *)
id_to_str(identifier, inline, cmt) ==
  (IF cmt THEN <<"<!--", "ID: ", ToString(identifier), "-->">>
          ELSE <<"ID: ", ToString(identifier)>>)
  \o (IF inline THEN <<" ">> ELSE <<"\n">>)

(* position_inserts left in the order of the list, not sorted. *)
sorted_inserts_not(ins) == ins

(* position_inserts.sort((a, b) => a[0] - b[0]): a stable sort by position *)
RECURSIVE sorted_inserts(_)
sorted_inserts(ins) ==
  IF ins = <<>> THEN <<>>
  ELSE LET k == CHOOSE i \in DOMAIN ins :
                  /\ \A j \in DOMAIN ins : ins[i][1] <= ins[j][1]
                  /\ \A j \in 1..(i - 1) : ins[j][1] # ins[i][1]
       IN <<ins[k]>> \o sorted_inserts(SubSeq(ins, 1, k - 1) \o SubSeq(ins, k + 1, Len(ins)))

(* text.slice(0, n) and text.slice(n) *)
Before(text, n) == SubSeq(text, 1, IF n > Len(text) THEN Len(text) ELSE n)
From(text, n) == SubSeq(text, (IF n > Len(text) THEN Len(text) ELSE n) + 1, Len(text))

RECURSIVE insert_all(_, _, _)
insert_all(text, ins, offset) ==
  IF ins = <<>> THEN text
  ELSE LET position == Head(ins)[1]
           insert_str == Head(ins)[2]
       IN insert_all(Before(text, position + offset) \o insert_str
                       \o From(text, position + offset),
                     Tail(ins), offset + Len(insert_str))

string_insert(text, position_inserts) ==
  insert_all(text, sorted_inserts(position_inserts), 0)

(* double_regexp: /(?:\r\n|\r|\n)((?:\r\n|\r|\n)(?:<!--)?ID: \d+)/g *)
IsDigits(tok) == tok \in {ToString(n) : n \in 0..(FreshId(MaxCands) + 1)}

(* (?:\r\n|\r|\n) at token i: the lengths it can take, first choice first *)
Newline(text, i) ==
  IF i > Len(text) THEN <<>>
  ELSE IF text[i] = "\r" /\ i < Len(text) /\ text[i + 1] = "\n" THEN <<2, 1>>
  ELSE IF text[i] \in {"\r", "\n"} THEN <<1>>
  ELSE <<>>

(* (?:<!--)?ID: \d+ at token i: the token after the match, or 0 *)
RECURSIVE DigitsEnd(_, _)
DigitsEnd(text, i) ==
  IF i <= Len(text) /\ IsDigits(text[i]) THEN DigitsEnd(text, i + 1) ELSE i

IdEnd(text, i) ==
  LET j == IF i <= Len(text) /\ text[i] = "<!--" THEN i + 1 ELSE i
  IN IF j + 1 <= Len(text) /\ text[j] = "ID: " /\ IsDigits(text[j + 1])
     THEN DigitsEnd(text, j + 1)
     ELSE 0

(* A match of double_regexp at token i: <<start of group 1, end>>, or <<>> *)
DoubleAt(text, i) ==
  LET tries == {<<a, b>> \in (1..2) \X (1..2) :
                  /\ \E x \in DOMAIN Newline(text, i) : Newline(text, i)[x] = a
                  /\ \E y \in DOMAIN Newline(text, i + a) : Newline(text, i + a)[y] = b
                  /\ IdEnd(text, i + a + b) # 0}
  IN IF tries = {} THEN <<>>
     ELSE LET t == CHOOSE t \in tries : \A u \in tries :
                     t[1] > u[1] \/ (t[1] = u[1] /\ t[2] >= u[2])
          IN <<i + t[1], IdEnd(text, i + t[1] + t[2])>>

(* text.replace(double_regexp, '$1') *)
RECURSIVE replace_double(_, _)
replace_double(text, i) ==
  IF i > Len(text) THEN <<>>
  ELSE LET m == DoubleAt(text, i)
       IN IF m = <<>> THEN <<text[i]>> \o replace_double(text, i + 1)
          ELSE SubSeq(text, m[1], m[2] - 1) \o replace_double(text, m[2])

fix_newline_ids(text) == replace_double(text, 1)

(* if (identifier): neither null nor 0 *)
Truthy(identifier) == identifier # NULL /\ identifier # 0

(* this.note_ids[index]: undefined beyond the end *)
NoteIdAt(index) == IF index \in DOMAIN note_ids THEN note_ids[index] ELSE NULL

(* The loops of writeIDs over the four index lists; index counts from 1. *)
Inserts(indexes, base, prefix, inline) ==
  LET kept == SelectSeq([i \in DOMAIN indexes |-> i],
                        LAMBDA i : Truthy(NoteIdAt(i + base)))
  IN [n \in DOMAIN kept |->
        <<indexes[kept[n]], prefix \o id_to_str(NoteIdAt(kept[n] + base), inline, comment)>>]

normalInserts == Inserts(id_indexes, 0, <<>>, FALSE)
inlineInserts == Inserts(inline_id_indexes, Len(notes_to_add), <<>>, TRUE)
regexInserts ==
  Inserts(regex_id_indexes, Len(notes_to_add) + Len(inline_notes_to_add), <<"\n">>, FALSE)
calloutInserts == Inserts(callout_id_indexes, 0, <<"> ">>, FALSE)

writeIDs ==
  /\ pc = "writeIDs"
  /\ inserts' = normalInserts \o inlineInserts \o regexInserts \o calloutInserts
  /\ file' = fix_newline_ids(string_insert(file, inserts'))
  /\ pc' = "done"
  /\ UNCHANGED <<todo, ignore_spans, notes_to_add, id_indexes,
                 inline_notes_to_add, inline_id_indexes,
                 regex_notes_to_add, regex_id_indexes,
                 callout_notes_to_add, callout_id_indexes,
                 notes_to_edit, all_notes_to_add, note_ids, warnings>>
  /\ inputsSame /\ fmtIdle /\ ctxIdle

----------------------------------------------------------------------------
(* Cloze numbering (file.ts, FormatConverter).  A field text is a sequence *)
(* of characters; of FormatConverter.format the model keeps the cloze      *)
(* conversion, the other steps act on syntax these characters cannot form  *)
(* (math, code, highlights, embeds, links) or belong to the markdown       *)
(* renderer.                                                               *)

Chars == {"{", "}", "a", "2", ":"}
IsDigit(ch) == ch \in {"2"}

(* let clozeUnsetNum: number = 1 *)
clozeUnsetNumInit == 1

(* c?(\d+)[:|] at character i: <<first digit, last digit>>, or <<>> *)
RECURSIVE DigitRun(_, _)
DigitRun(text, i) ==
  IF i <= Len(text) /\ IsDigit(text[i]) THEN DigitRun(text, i + 1) ELSE i

ClozeId(text, i) ==
  LET j == IF i <= Len(text) /\ text[i] = "c" THEN i + 1 ELSE i
      k == DigitRun(text, j)
  IN IF k > j /\ k <= Len(text) /\ text[k] \in {":", "|"} THEN <<j, k - 1>> ELSE <<>>

(* (?!{) at character n, then ((?:[^\n][\n]?)+?) lazily, then             *)
(* (?<!})}(?!}): the index of the closing brace, or 0                      *)
ClozeClose(text, n) ==
  LET ends == {e \in (n + 1)..Len(text) :
                 /\ text[e] = "}" /\ text[e - 1] # "}"
                 /\ (e = Len(text) \/ text[e + 1] # "}")}
  IN IF n > Len(text) \/ text[n] = "{" \/ ends = {} THEN 0
     ELSE CHOOSE e \in ends : \A f \in ends : e <= f

(* A match of CLOZE_REGEXP at character i: the optional number is tried    *)
(* first, and given up when the rest does not match.                       *)
ClozeAt(text, i) ==
  IF text[i] # "{" \/ (i > 1 /\ text[i - 1] = "{") THEN <<>>
  ELSE LET id == ClozeId(text, i + 1)
           withId == IF id = <<>> THEN 0 ELSE ClozeClose(text, id[2] + 2)
           without == ClozeClose(text, i + 1)
       IN IF withId # 0
          THEN [matchId |-> SubSeq(text, id[1], id[2]),
                matchContent |-> SubSeq(text, id[2] + 2, withId - 1), last |-> withId]
          ELSE IF without # 0
          THEN [matchId |-> <<>>,
                matchContent |-> SubSeq(text, i + 1, without - 1), last |-> without]
          ELSE <<>>

(* cloze_repl: the replacement, and the counter after it.  The line        *)
(* clozeUnsetNum += 1 is commented out.                                    *)
cloze_repl(num, matchId, matchContent) ==
  IF matchId = <<>>
  THEN [result |-> <<"{", "{", "c", ToString(num), ":", ":">> \o matchContent \o <<"}", "}">>,
        clozeUnsetNum |-> num]
  ELSE [result |-> <<"{", "{", "c">> \o matchId \o <<":", ":">> \o matchContent \o <<"}", "}">>,
        clozeUnsetNum |-> num]

(* text.replace(CLOZE_REGEXP, this.cloze_repl) from character i on *)
RECURSIVE replace_cloze(_, _, _)
replace_cloze(text, i, num) ==
  IF i > Len(text) THEN [text |-> <<>>, clozeUnsetNum |-> num]
  ELSE LET m == ClozeAt(text, i)
       IN IF m = <<>>
          THEN LET rest == replace_cloze(text, i + 1, num)
               IN [text |-> <<text[i]>> \o rest.text, clozeUnsetNum |-> rest.clozeUnsetNum]
          ELSE LET r == cloze_repl(num, m.matchId, m.matchContent)
                   rest == replace_cloze(text, m.last + 1, r.clozeUnsetNum)
               IN [text |-> r.result \o rest.text, clozeUnsetNum |-> rest.clozeUnsetNum]

(* curly_to_cloze with the counter set to 0 instead of 1 after it. *)
curly_to_cloze_zero(text, num) ==
  [text |-> replace_cloze(text, 1, num).text, clozeUnsetNum |-> 0]

(* curly_to_cloze: the converted text; the counter is set to 1 after it *)
curly_to_cloze(text, num) ==
  [text |-> replace_cloze(text, 1, num).text, clozeUnsetNum |-> 1]

NoCall(n) == [done |-> FALSE, cloze |-> FALSE, start |-> 0, out |-> <<>>, calls |-> n]

scanIdle == UNCHANGED scanVars

(* getFields accumulates the raw text of a field. *)
addText ==
  /\ ~fmt.done
  /\ Len(noteText) < MaxText
  /\ \E ch \in Chars : noteText' = Append(noteText, ch)
  /\ UNCHANGED <<clozeUnsetNum, fmt>>
  /\ scanIdle /\ ctxIdle

(* The four note classes. *)
Variants == {"block", "inline", "regex", "callout"}

(* The cloze argument of the format call in getFields: Note, InlineNote    *)
(* and RegexNote pass note_type.toLowerCase().includes('cloze') &&         *)
(* this.curly_cloze, CalloutNote passes this.curly_cloze.                  *)
clozeArgument(kind, note_type, curly_cloze) ==
  IF kind = "callout" THEN curly_cloze ELSE IsClozeType(note_type) /\ curly_cloze

(* this.formatter.format(fields[key].trim(), cloze, highlights_to_cloze),  *)
(* called by getFields of a note of a variant and of a type of the schema, *)
(* with data.curly_cloze on or off.                                        *)
formatCall(kind, note_type, curly_cloze) ==
  /\ ~fmt.done
  /\ fmt.calls < MaxCalls
  /\ LET cloze == clozeArgument(kind, note_type, curly_cloze)
         converted == curly_to_cloze(noteText, clozeUnsetNum)
     IN /\ fmt' = [done |-> TRUE, cloze |-> cloze, start |-> clozeUnsetNum,
                   out |-> IF cloze THEN converted.text ELSE noteText,
                   calls |-> fmt.calls + 1]
        /\ clozeUnsetNum' = IF cloze THEN converted.clozeUnsetNum ELSE clozeUnsetNum
  /\ UNCHANGED noteText
  /\ scanIdle /\ ctxIdle

(* FormatConverter.format(noteText, cloze, highlightToCloze) *)
format ==
  \E kind \in Variants, note_type \in DOMAIN fields_dict, curly_cloze \in BOOLEAN :
    formatCall(kind, note_type, curly_cloze)

(* getFields goes on to the next field, or the scan to the next note. *)
nextField ==
  /\ fmt.done
  /\ noteText' = <<>>
  /\ fmt' = NoCall(fmt.calls)
  /\ UNCHANGED clozeUnsetNum
  /\ scanIdle /\ ctxIdle

----------------------------------------------------------------------------
(* The context of a position (file.ts, AbstractFile.getContextAtIndex). *)

(* this.path *)
path == "note.md"

(* A HeadingCache: heading, level and position.start.offset. *)
Heading(title, level, offset) == [heading |-> title, level |-> level, offset |-> offset]

(* insert_index counted while currentHeading.level >= contextHeading.level. *)
RECURSIVE insert_index_ge(_, _)
insert_index_ge(currentContext, currentHeading) ==
  IF currentContext # <<>> /\ currentHeading.level >= Head(currentContext).level
  THEN 1 + insert_index_ge(Tail(currentContext), currentHeading)
  ELSE 0

(* insert_index: the number of headings at the start of currentContext     *)
(* whose level is less than that of currentHeading.                        *)
RECURSIVE insert_index(_, _)
insert_index(currentContext, currentHeading) ==
  IF currentContext # <<>> /\ currentHeading.level > Head(currentContext).level
  THEN 1 + insert_index(Tail(currentContext), currentHeading)
  ELSE 0

(* The loop over this.file_cache.headings from heading i on: currentContext *)
(* when it ends.                                                           *)
RECURSIVE headingLoop(_, _, _, _)
headingLoop(headings, i, currentContext, pos) ==
  IF i > Len(headings) \/ pos < headings[i].offset THEN currentContext
  ELSE headingLoop(headings, i + 1,
                   Append(SubSeq(currentContext, 1, insert_index(currentContext, headings[i])),
                          headings[i]),
                   pos)

(* getContextAtIndex: result_arr, which is returned joined by ' > ' *)
getContextAtIndex(cache, pos) ==
  IF "headings" \notin DOMAIN cache THEN <<path>>
  ELSE LET currentContext == headingLoop(cache.headings, 1, <<>>, pos)
       IN <<path>> \o [k \in DOMAIN currentContext |-> currentContext[k].heading]

(* The heading lists of the metadata provider: up to MaxHeadings headings  *)
(* in the order of their start offsets, heading k titled "k".              *)
RECURSIVE HeadingLists(_)
HeadingLists(n) ==
  IF n = 0 THEN {<<>>}
  ELSE LET shorter == HeadingLists(n - 1)
       IN shorter \cup
          {Append(hs, Heading(ToString(Len(hs) + 1), level, offset)) :
             hs \in {l \in shorter : Len(l) = n - 1},
             level \in 1..MaxLevel, offset \in Pos}

Ordered(hs) == \A k \in 1..(Len(hs) - 1) : hs[k].offset < hs[k + 1].offset

FileCaches ==
  {[sections |-> <<>>]}
  \cup {[sections |-> <<>>, headings |-> hs] : hs \in {l \in HeadingLists(MaxHeadings) : Ordered(l)}}

callGetContextAtIndex ==
  /\ pc = "getContextAtIndex"
  /\ context' = getContextAtIndex(file_cache, contextPosition)
  /\ pc' = "context"
  /\ UNCHANGED <<file_cache, contextPosition>>
  /\ UNCHANGED <<file, todo, ignore_spans, notes_to_add, id_indexes,
                 inline_notes_to_add, inline_id_indexes,
                 regex_notes_to_add, regex_id_indexes,
                 callout_notes_to_add, callout_id_indexes,
                 notes_to_edit, all_notes_to_add, note_ids, inserts, warnings>>
  /\ inputsSame /\ fmtIdle

----------------------------------------------------------------------------
(* The scan of one document. *)

ScanIdle ==
  /\ pc = "setupScan" /\ todo = <<>>
  /\ ignore_spans = <<>>
  /\ notes_to_add = <<>> /\ id_indexes = <<>>
  /\ inline_notes_to_add = <<>> /\ inline_id_indexes = <<>>
  /\ regex_notes_to_add = <<>> /\ regex_id_indexes = <<>>
  /\ callout_notes_to_add = <<>> /\ callout_id_indexes = <<>>
  /\ notes_to_edit = <<>> /\ all_notes_to_add = <<>>
  /\ note_ids = <<>> /\ inserts = <<>> /\ warnings = <<>>

FormatIdle == clozeUnsetNum = clozeUnsetNumInit /\ noteText = <<>> /\ fmt = NoCall(0)

ContextIdle == file_cache = [sections |-> <<>>] /\ contextPosition = 0 /\ context = <<>>

(* A document of MaxPos + 2 plain tokens, any candidates in it. *)
Init ==
  /\ doc \in Docs
  /\ EXISTING_IDS \in SUBSET IdPool
  /\ comment = FALSE
  /\ file = [k \in 1..(MaxPos + 2) |-> "x"]
  /\ original_file = file
  /\ ScanIdle /\ FormatIdle /\ ContextIdle

Next ==
  \/ setupScan
  \/ scanNotes
  \/ scanInlineNotes
  \/ scanCalloutNotes
  \/ search
  \/ scanFileEnd
  \/ requests
  \/ writeIDs

Spec == Init /\ [][Next]_vars

(* A document of any text of up to MaxLen tokens, in which at most one     *)
(* note without identifier is matched.                                     *)
Tokens == {"\n", "ID: ", "7", "<!--", "x"}

RECURSIVE Texts(_)
Texts(n) ==
  IF n = 0 THEN {<<>>}
  ELSE LET shorter == Texts(n - 1)
       IN shorter \cup {Append(t, tok) : t \in shorter, tok \in Tokens}

NewNotes == {c \in Candidates :
               c.kind # "code" /\ c.id = NULL /\ c.type = "Basic" /\ c.shape = "ok" /\ ~c.tags}

InitText ==
  /\ file \in Texts(MaxLen)
  /\ doc \in {{}} \cup {{c} : c \in {n \in NewNotes : n.span[2] <= Len(file)}}
  /\ EXISTING_IDS = {}
  /\ comment \in BOOLEAN
  /\ original_file = file
  /\ ScanIdle /\ FormatIdle /\ ContextIdle

SpecText == InitText /\ [][Next]_vars

(* A call of string_insert on any text of up to MaxLen tokens and any list *)
(* of up to MaxInserts insertions at offsets inside the text.              *)
RECURSIVE PlainTexts(_)
PlainTexts(n) ==
  IF n = 0 THEN {<<>>}
  ELSE LET shorter == PlainTexts(n - 1)
       IN shorter \cup {Append(t, tok) : t \in shorter, tok \in {"x", "y"}}

Markers == {<<"A">>, <<"B", "C">>}

RECURSIVE InsertLists(_, _)
InsertLists(text, n) ==
  IF n = 0 THEN {<<>>}
  ELSE LET shorter == InsertLists(text, n - 1)
       IN shorter \cup {Append(l, <<o, m>>) : l \in shorter, o \in 0..Len(text), m \in Markers}

callStringInsert ==
  /\ pc = "string_insert"
  /\ file' = string_insert(file, inserts)
  /\ pc' = "inserted"
  /\ UNCHANGED <<todo, ignore_spans, notes_to_add, id_indexes,
                 inline_notes_to_add, inline_id_indexes,
                 regex_notes_to_add, regex_id_indexes,
                 callout_notes_to_add, callout_id_indexes,
                 notes_to_edit, all_notes_to_add, note_ids, inserts, warnings>>
  /\ inputsSame /\ fmtIdle /\ ctxIdle

InitInsert ==
  /\ file \in PlainTexts(MaxLen)
  /\ inserts \in InsertLists(file, MaxInserts)
  /\ original_file = file
  /\ pc = "string_insert"
  /\ doc = {} /\ EXISTING_IDS = {} /\ comment = FALSE
  /\ todo = <<>> /\ ignore_spans = <<>>
  /\ notes_to_add = <<>> /\ id_indexes = <<>>
  /\ inline_notes_to_add = <<>> /\ inline_id_indexes = <<>>
  /\ regex_notes_to_add = <<>> /\ regex_id_indexes = <<>>
  /\ callout_notes_to_add = <<>> /\ callout_id_indexes = <<>>
  /\ notes_to_edit = <<>> /\ all_notes_to_add = <<>>
  /\ note_ids = <<>> /\ warnings = <<>>
  /\ FormatIdle /\ ContextIdle

NextInsert == callStringInsert

SpecInsert == InitInsert /\ [][NextInsert]_vars

(* A call of getContextAtIndex for any position and any metadata. *)
InitContext ==
  /\ file_cache \in FileCaches
  /\ contextPosition \in Pos
  /\ context = <<>>
  /\ pc = "getContextAtIndex"
  /\ doc = {} /\ EXISTING_IDS = {} /\ comment = FALSE
  /\ file = <<>> /\ original_file = <<>>
  /\ todo = <<>> /\ ignore_spans = <<>>
  /\ notes_to_add = <<>> /\ id_indexes = <<>>
  /\ inline_notes_to_add = <<>> /\ inline_id_indexes = <<>>
  /\ regex_notes_to_add = <<>> /\ regex_id_indexes = <<>>
  /\ callout_notes_to_add = <<>> /\ callout_id_indexes = <<>>
  /\ notes_to_edit = <<>> /\ all_notes_to_add = <<>>
  /\ note_ids = <<>> /\ inserts = <<>> /\ warnings = <<>>
  /\ FormatIdle

NextContext == callGetContextAtIndex

SpecContext == InitContext /\ [][NextContext]_vars

(* The formatting of the fields of the notes of a run. *)
InitFormat ==
  /\ doc = {} /\ EXISTING_IDS = {} /\ comment = FALSE
  /\ file = <<>> /\ original_file = <<>>
  /\ ScanIdle /\ FormatIdle /\ ContextIdle

NextFormat ==
  \/ addText
  \/ format
  \/ nextField

SpecFormat == InitFormat /\ [][NextFormat]_vars

----------------------------------------------------------------------------
(* Properties of the scan and of the write-back. *)

Creations ==
  Range(notes_to_add) \cup Range(inline_notes_to_add)
    \cup Range(regex_notes_to_add) \cup Range(callout_notes_to_add)
Updates == {notes_to_edit[k].note : k \in DOMAIN notes_to_edit}
Extracted == Creations \cup Updates

(* The note extracted from candidate c, if there is one. *)
From_(c, n) == n.kind = c.kind /\ n.src = c.span /\ n.modelName = c.type

ScanOver == pc \in {"scanFileEnd", "requests", "writeIDs", "done"}

(* The insertion positions in the order of the creation batch. *)
CreationIndexes ==
  id_indexes \o inline_id_indexes \o regex_id_indexes \o callout_id_indexes

(* The marker of a note of a category, carrying the identifier. *)
MarkerFor(kind, identifier) ==
  (CASE kind = "regex" -> <<"\n">> [] kind = "callout" -> <<"> ">> [] OTHER -> <<>>)
  \o id_to_str(identifier, kind = "inline", comment)

(* C1: after the write-back, the markers inserted are exactly, for every   *)
(* creation k of the batch that was given an identifier, the marker of     *)
(* its category carrying note_ids[k] at its own insertion position.        *)
C1_MarkerCarriesOwnId ==
  pc = "done" =>
    /\ \A k \in DOMAIN all_notes_to_add :
         Truthy(note_ids[k]) =>
           \E n \in DOMAIN inserts :
             inserts[n] = <<CreationIndexes[k], MarkerFor(all_notes_to_add[k].kind, note_ids[k])>>
    /\ \A n \in DOMAIN inserts :
         \E k \in DOMAIN all_notes_to_add :
           inserts[n] = <<CreationIndexes[k], MarkerFor(all_notes_to_add[k].kind, note_ids[k])>>

(* C2: no two extracted notes (creations and updates together) come from   *)
(* overlapping regions of the document.                                    *)
C2_NoDoubleExtraction ==
  \A a \in Extracted : \A b \in Extracted : a # b => ~Overlap(a.src, b.src)

(* C3: a note whose type is not in the schema is in neither the creation   *)
(* list nor the update list, whatever EXISTING_IDS holds.                  *)
C3_UnknownTypeDropped ==
  \A n \in Extracted : n.modelName \in DOMAIN fields_dict

(* C4: once the scan is over, a note with an identifier that is not in     *)
(* EXISTING_IDS is in neither list, and a block, inline or callout note of *)
(* a known type with such an identifier was reported as not existing.      *)
C4_DanglingReportedAndDropped ==
  ScanOver =>
    \A c \in doc :
      (c.kind \in {"block", "inline", "callout", "regex"}
         /\ c.id # NULL /\ c.id \notin EXISTING_IDS) =>
        /\ \A n \in Extracted : ~From_(c, n)
        /\ (c.kind # "regex" /\ ~no_note_type(c)) =>
             \E k \in DOMAIN warnings : warnings[k] = Warn("does not exist", c)

(* C5: a match of a custom regexp of a cloze type whose fields hold no     *)
(* cloze marker is in neither list, whatever its identifier and whatever   *)
(* EXISTING_IDS holds.                                                     *)
C5_InvalidClozeDropped ==
  \A c \in doc :
    (c.kind = "regex" /\ IsClozeType(c.type) /\ ~c.cloze) =>
      \A n \in Extracted : ~From_(c, n)

(* C6: a callout whose Front or Back is empty after stripping yields no    *)
(* creation, no update and no insertion position.                          *)
C6_EmptyCalloutDropped ==
  \A c \in doc :
    (c.kind = "callout" /\ c.shape = "empty") =>
      /\ \A n \in Extracted : ~From_(c, n)
      /\ Position(c) \notin Range(callout_id_indexes)

(* C7: no extractor raises: the scan never ends in a TypeError.            *)
C7_NoExtractorRaises == pc # "TypeError"

(* C8: a write-back that writes no identifier (no creation, or null for    *)
(* every creation) leaves the text of the document as it was.              *)
C8_NothingWrittenNothingChanged ==
  (pc = "done" /\ \A k \in DOMAIN note_ids : ~Truthy(note_ids[k])) => file = original_file

(* C11: the keys of the field map of every extracted note of a type of the *)
(* schema are exactly the field names of that type.                        *)
C11_FieldKeysAreSchema ==
  \A n \in Extracted :
    n.modelName \in DOMAIN fields_dict => n.fields = Range(fields_dict[n.modelName])

(* C12: a callout block whose marker is [!anki] without subtype, with a    *)
(* non-empty Front and Back, no identifier and no tag, is extracted: once  *)
(* the callouts are scanned it is a creation with the fields Front, Back.  *)
C12_PlainCalloutExtracted ==
  (ScanOver \/ pc = "search") =>
    \A c \in doc :
      (c.kind = "callout" /\ c.type = NoSubtype /\ c.shape = "ok" /\ c.id = NULL /\ ~c.tags) =>
        \E n \in Range(callout_notes_to_add) :
          n.kind = "callout" /\ n.src = c.span /\ n.fields = {"Front", "Back"}

(* The positions recorded for the notes of a creation list are, in order,  *)
(* the values of pos for the candidates they were extracted from.          *)
PositionsAre(notes, indexes, pos(_)) ==
  /\ Len(indexes) = Len(notes)
  /\ \A k \in DOMAIN notes :
       \A c \in doc : From_(c, notes[k]) => indexes[k] = pos(c)

(* The end of the content of a candidate: for a block or an inline note    *)
(* the closing delimiter follows it, for a match of a custom regexp the    *)
(* Tags: suffix, if any.                                                   *)
ContentEnd(c) == IF c.kind \in {"block", "inline"} THEN c.span[2] - 1 ELSE c.span[2]

(* The same, but for a match of a custom regexp the end of the match, the  *)
(* Tags: suffix included.                                                  *)
ContentOrMatchEnd(c) ==
  IF c.kind = "regex" THEN c.span[2] + (IF c.tags THEN 1 ELSE 0) ELSE ContentEnd(c)

(* C14 as stated: the position recorded for every creation of every        *)
(* variant is the end of its content, before any suffix the match took.    *)
C14_PositionIsContentEnd ==
  /\ PositionsAre(notes_to_add, id_indexes, ContentEnd)
  /\ PositionsAre(inline_notes_to_add, inline_id_indexes, ContentEnd)
  /\ PositionsAre(callout_notes_to_add, callout_id_indexes, ContentEnd)
  /\ PositionsAre(regex_notes_to_add, regex_id_indexes, ContentEnd)

(* C14 amended: the position recorded for a block, inline or callout       *)
(* creation is the end of its content; for a creation matched by a custom  *)
(* regexp it is the end of the whole match, after the Tags: suffix.        *)
C14_PositionIsContentOrMatchEnd ==
  /\ PositionsAre(notes_to_add, id_indexes, ContentOrMatchEnd)
  /\ PositionsAre(inline_notes_to_add, inline_id_indexes, ContentOrMatchEnd)
  /\ PositionsAre(callout_notes_to_add, callout_id_indexes, ContentOrMatchEnd)
  /\ PositionsAre(regex_notes_to_add, regex_id_indexes, ContentOrMatchEnd)

(* A block note and a match of a custom regexp with a Tags: suffix are     *)
(* both creations.                                                         *)
C14_Witness ==
  /\ notes_to_add # <<>>
  /\ \E k \in DOMAIN regex_notes_to_add :
       \E c \in doc : From_(c, regex_notes_to_add[k]) /\ c.tags

(* The matches of custom regexps that the scan has dealt with, and how:    *)
(* added to the update list, added to the creation list, or reported as a  *)
(* dangling identifier.                                                    *)
Handled ==
  {<<c, "edit">> : c \in {c \in doc : c.kind = "regex" /\ \E n \in Updates : From_(c, n)}}
  \cup {<<c, "add">> : c \in {c \in doc : c.kind = "regex" /\ \E n \in Creations : From_(c, n)}}
  \cup {<<c, "dangling">> :
          c \in {c \in doc : c.kind = "regex" /\ Warn("does not exist", c) \in Range(warnings)}}

(* The pass that dealt with it, and the span it claimed. *)
PassOf(h) == IF h[2] = "add" THEN (IF h[1].tags THEN 3 ELSE 4) ELSE (IF h[1].tags THEN 1 ELSE 2)
ClaimOf(h) == MatchSpan(h[1], PassOf(h))
TypeIndex(c) == CHOOSE i \in DOMAIN custom_regexps : custom_regexps[i] = c.type

(* g was dealt with before h: an earlier type, an earlier pass of the same *)
(* type, or an earlier match of the same pass.                             *)
DealtBefore(g, h) ==
  \/ TypeIndex(g[1]) < TypeIndex(h[1])
  \/ TypeIndex(g[1]) = TypeIndex(h[1]) /\ PassOf(g) < PassOf(h)
  \/ TypeIndex(g[1]) = TypeIndex(h[1]) /\ PassOf(g) = PassOf(h) /\ g[1].span[1] < h[1].span[1]

Within(a, b) == a[1] >= b[1] /\ a[2] <= b[2]

(* C15: no match of a custom regexp is dealt with that lies within the     *)
(* span of a match dealt with before it; and a match that carries an       *)
(* identifier suffix is never added to the creation list.                  *)
C15_ClaimedSpanNotRematched ==
  /\ \A g \in Handled : \A h \in Handled :
       (g # h /\ DealtBefore(g, h)) => ~Within(ClaimOf(h), ClaimOf(g))
  /\ \A c \in doc :
       (c.kind = "regex" /\ c.id # NULL) => \A n \in Range(regex_notes_to_add) : ~From_(c, n)

(* The match search has reached, and whether its fields lack the cloze     *)
(* marker its type requires.                                               *)
Reached == MatchSpan(Head(todo).c, Head(todo).p)
InvalidCloze(c) == c.kind = "regex" /\ IsClozeType(c.type) /\ ~c.cloze

(* C16: a step of search that discards an invalid cloze (the match is      *)
(* yielded and added to neither list) leaves ignore_spans as it was before *)
(* the match was claimed.                                                  *)
C16_ReleaseRestoresRegistry ==
  [][(/\ pc = "search"
      /\ InvalidCloze(Head(todo).c)
      /\ ~contained_in(Reached, ignore_spans)
      /\ notes_to_edit' = notes_to_edit
      /\ regex_notes_to_add' = regex_notes_to_add)
     => ignore_spans' = ignore_spans]_vars

(* The scan is over, spans are claimed, and an invalid cloze that none of  *)
(* them contains was reached and discarded.                                *)
C16_Witness ==
  /\ pc = "scanFileEnd"
  /\ ignore_spans # <<>>
  /\ \E c \in doc :
       /\ InvalidCloze(c)
       /\ ~contained_in(c.span, ignore_spans)
       /\ \A n \in Extracted : ~From_(c, n)

(* Some claimed span e has start >= e.start - 1 and end <= e.end + 1. *)
WithinOneOfClaimed(span) ==
  \E e \in Range(ignore_spans) : span[1] >= e[1] - 1 /\ span[2] <= e[2] + 1

(* The match reached parses to the identifier CLOZE_ERROR: if the loop     *)
(* body runs, it may release the span it claimed.                          *)
ParsesToClozeError ==
  \/ InvalidCloze(Head(todo).c)
  \/ Passes[Head(todo).p].searchId /\ Head(todo).c.id = CLOZE_ERROR

(* C17: a step of search on a match that does not parse to CLOZE_ERROR     *)
(* runs the loop body, which claims the span of the match, if and only if  *)
(* no span claimed so far contains the match within one position;          *)
(* otherwise the step does nothing.                                        *)
C17_YieldedIffNotContained ==
  [][(pc = "search" /\ ~ParsesToClozeError)
     => /\ ~WithinOneOfClaimed(Reached) <=> ignore_spans' = Append(ignore_spans, Reached)
        /\ WithinOneOfClaimed(Reached) <=>
             (/\ ignore_spans' = ignore_spans /\ notes_to_edit' = notes_to_edit
              /\ regex_notes_to_add' = regex_notes_to_add /\ warnings' = warnings
              /\ pc' # "TypeError")]_vars

(* The scan is over; one match of a custom regexp was yielded and became a *)
(* creation, another was passed over because a claimed span contains it    *)
(* within one position, though not exactly.                                *)
C17_Witness ==
  /\ pc = "scanFileEnd"
  /\ regex_notes_to_add # <<>>
  /\ \E c \in doc :
       /\ c.kind = "regex" /\ ~no_note_type(c) /\ ~InvalidCloze(c) /\ c.id = NULL /\ ~c.tags
       /\ \A n \in Extracted : ~From_(c, n)
       /\ WithinOneOfClaimed(c.span)
       /\ ~\E e \in Range(ignore_spans) : Within(c.span, e)

----------------------------------------------------------------------------
(* Properties of getContextAtIndex. *)

(* The headings whose titles the breadcrumb shows after the path. *)
Shown ==
  [k \in 1..(Len(context) - 1) |->
     CHOOSE h \in Range(file_cache.headings) : h.heading = context[k + 1]]

(* The headings that start at or before the position. *)
StartedBefore == {h \in Range(file_cache.headings) : h.offset <= contextPosition}

(* C19: the breadcrumb is the path followed by headings that start at or   *)
(* before the position, in the order of the list, with strictly increasing *)
(* levels, the last being the last heading that starts at or before the    *)
(* position; a heading that starts at or before the position is left out   *)
(* exactly when such a heading later in the list has an equal or lower     *)
(* level.                                                                  *)
C19_BreadcrumbIsHeadingStack ==
  pc = "context" =>
    /\ context[1] = path
    /\ "headings" \notin DOMAIN file_cache => context = <<path>>
    /\ "headings" \in DOMAIN file_cache =>
         /\ \A k \in DOMAIN context \ {1} :
              \E h \in StartedBefore : h.heading = context[k]
         /\ \A k \in 1..(Len(Shown) - 1) :
              Shown[k].level < Shown[k + 1].level /\ Shown[k].offset < Shown[k + 1].offset
         /\ StartedBefore # {} =>
              /\ Shown # <<>>
              /\ \A h \in StartedBefore : h.offset <= Shown[Len(Shown)].offset
         /\ \A h \in StartedBefore :
              h \in Range(Shown) <=>
                ~\E g \in StartedBefore : g.offset > h.offset /\ g.level <= h.level

(* A breadcrumb with a heading, after a heading was removed from the stack *)
(* and with a heading that starts after the position.                      *)
C19_Witness ==
  /\ pc = "context"
  /\ "headings" \in DOMAIN file_cache
  /\ Len(context) > 1
  /\ \E h \in StartedBefore : h \notin Range(Shown)
  /\ \E h \in Range(file_cache.headings) : h \notin StartedBefore

----------------------------------------------------------------------------
(* Properties of string_insert. *)

RECURSIVE SumLen(_, _)
SumLen(ins, S) ==
  IF S = {} THEN 0
  ELSE LET k == CHOOSE k \in S : TRUE IN Len(ins[k][2]) + SumLen(ins, S \ {k})

(* Where marker k starts in the result if only the markers with smaller    *)
(* offsets are before it.                                                  *)
StartAfterSmaller(ins, k) ==
  ins[k][1] + SumLen(ins, {j \in DOMAIN ins : ins[j][1] < ins[k][1]})

(* Where marker k starts in the result if the markers with smaller         *)
(* offsets, and those with the same offset that are earlier in the list,   *)
(* are before it.                                                          *)
StartAfterEarlier(ins, k) ==
  ins[k][1] + SumLen(ins, {j \in DOMAIN ins :
                             ins[j][1] < ins[k][1] \/ (ins[j][1] = ins[k][1] /\ j < k)})

(* The tokens of text that are at none of the positions of S, in order. *)
RECURSIVE Without(_, _, _)
Without(text, S, i) ==
  IF i > Len(text) THEN <<>>
  ELSE (IF i \in S THEN <<>> ELSE <<text[i]>>) \o Without(text, S, i + 1)

(* The result is the text with every marker of ins at start(ins, k). *)
InsertedAt(result, text, ins, start(_, _)) ==
  /\ Len(result) = Len(text) + SumLen(ins, DOMAIN ins)
  /\ \A k \in DOMAIN ins :
       /\ start(ins, k) + Len(ins[k][2]) <= Len(result)
       /\ SubSeq(result, start(ins, k) + 1, start(ins, k) + Len(ins[k][2])) = ins[k][2]
  /\ Without(result,
             UNION {(start(ins, k) + 1)..(start(ins, k) + Len(ins[k][2])) : k \in DOMAIN ins},
             1) = text

(* C13 as stated: the result of string_insert has every marker at its      *)
(* offset plus the length of the markers with smaller offsets, its length  *)
(* is that of the text plus that of the markers, and without the markers   *)
(* it is the text.                                                         *)
C13_MarkersAfterSmallerOffsets ==
  pc = "inserted" => InsertedAt(file, original_file, inserts, StartAfterSmaller)

(* C13 amended: the same, with every marker at its offset plus the length  *)
(* of the markers with smaller offsets and of the markers with the same    *)
(* offset that are earlier in the list.                                    *)
C13_MarkersInStableOrder ==
  pc = "inserted" => InsertedAt(file, original_file, inserts, StartAfterEarlier)

(* Two markers were inserted that the list gives in the order opposite to  *)
(* that of their offsets.                                                  *)
C13_Witness ==
  /\ pc = "inserted"
  /\ Len(inserts) = 2
  /\ inserts[1][1] > inserts[2][1]
  /\ file # original_file

----------------------------------------------------------------------------
(* Properties of the cloze numbering. *)

(* The numbering with the auto-incrementing counter: the k-th unnumbered   *)
(* span becomes cloze k, a numbered span keeps its number.                 *)
RECURSIVE Numbered(_, _, _)
Numbered(text, i, k) ==
  IF i > Len(text) THEN <<>>
  ELSE LET m == ClozeAt(text, i)
       IN IF m = <<>> THEN <<text[i]>> \o Numbered(text, i + 1, k)
          ELSE IF m.matchId = <<>>
          THEN <<"{", "{", "c", ToString(k), ":", ":">> \o m.matchContent \o <<"}", "}">>
                 \o Numbered(text, m.last + 1, k + 1)
          ELSE <<"{", "{", "c">> \o m.matchId \o <<":", ":">> \o m.matchContent \o <<"}", "}">>
                 \o Numbered(text, m.last + 1, k)

(* C9: a format call with cloze conversion numbers the unnumbered curly    *)
(* spans 1, 2, ... in order of appearance and keeps explicit numbers.      *)
C9_AutoIncrement ==
  (fmt.done /\ fmt.cloze) => fmt.out = Numbered(noteText, 1, 1)

(* The text has a curly span that the cloze conversion would convert. *)
HasCurlySpan(text) == \E i \in DOMAIN text : ClozeAt(text, i) # <<>>

(* C18: a format call made for a field with a curly span, of a note of any *)
(* variant, converts the span if and only if data.curly_cloze is on and    *)
(* the name of the note type contains "cloze".                             *)
C18_ClozeIffToggleAndType ==
  [][\A kind \in Variants, note_type \in DOMAIN fields_dict, curly_cloze \in BOOLEAN :
       (formatCall(kind, note_type, curly_cloze) /\ HasCurlySpan(noteText))
         => (fmt'.out # noteText <=> (curly_cloze /\ IsClozeType(note_type)))]_vars

(* C10: the cloze counter is 1 between the format calls, and was 1 when    *)
(* the last call began, whatever calls were made before.                   *)
C10_CounterIsOne ==
  /\ clozeUnsetNum = 1
  /\ fmt.done => fmt.start = 1

(* A second call, with cloze conversion, has numbered an unnumbered span. *)
C10_Witness ==
  /\ fmt.done /\ fmt.cloze /\ fmt.calls = 2
  /\ \E i \in DOMAIN noteText :
       ClozeAt(noteText, i) # <<>> /\ ClozeAt(noteText, i).matchId = <<>>

====
